---- MODULE Spec2Model ----
(***************************************************************************)
(* State-machine model of the eye_cursor interaction engine:               *)
(*   - BlinkDetector (src/src/blink_detection.py): per-channel hysteresis, *)
(*     mirrored channel swap, both-eyes blink and single-eye wink timing.  *)
(*   - GazeLockManager (src/src/gaze_lock.py): free / candidate / locked   *)
(*     target acquisition with velocity gating and the away timer.         *)
(*                                                                         *)
(* Time is an integer number of milliseconds (time.time() in the code);    *)
(* eyelid ratios are integers in units of 0.001; screen positions are      *)
(* integer pixels.  Comparisons the code makes on floats are made here on  *)
(* cross-multiplied integers, so no rounding enters the model.             *)
(***************************************************************************)
EXTENDS Integers, Sequences, FiniteSets, TLC

VARIABLES
    now,            \* time.time() of the latest frame / tick
    last_op,        \* the operation that produced the current state
    \* ---- BlinkDetector fields
    min_closed_ms,  \* constructor argument, base of the timing windows
    l_closed_raw,   \* hysteresis state of the image-left channel
    r_closed_raw,   \* hysteresis state of the image-right channel
    prev_L, prev_R, prev_B,
    tL, tR, tB,
    both_dominant,
    rawL, rawR,     \* ratios _ratios() returned for the latest frame
    bstate,         \* the dict update() returned for the latest frame
    \* ---- GazeLockManager fields
    targets,        \* self.targets: the snapshot handed to update_targets
    locked_target,  \* self.locked_target, Nil for None
    candidate,      \* self.candidate, Nil for None
    candidate_start,\* self.candidate_start, NoTime for None
    away_since,     \* self.away_since, NoTime for None
    gaze_history,   \* gaze_history / time_history: <<[p, t], ...>>, oldest first
    lres,           \* the dict push_gaze() returned for the latest tick
    \* ---- main.py
    targets_cache,  \* the target list main.py keeps for voice "lock"
    drag_active,    \* the left button is held down by the engine
    drag_start_time,\* time.time() when the drag started
    drag_source,    \* history: what started the current drag
    scroll_mode,
    both_closed_start,    \* NoTime for None
    last_left_click_time,
    last_scroll_time,
    calls,          \* pyautogui calls of the latest step, in the order made; on a
                    \* face frame also the calls that map, smooth and lock the gaze
    running,        \* the loop of main() has not been left or killed
    \* ---- Calibration fields
    points,         \* self.points: point name -> anchor
    dx_min, dx_max, dy_min, dy_max,
    cal_file,       \* content of calibration_data.json, NoFile when absent
    cal_idx,        \* record_all: index of the point being collected, 0 when idle
    cal_samples,    \* _collect: samples
    cal_elapsed,    \* _collect: now - start at the latest frame
    mapped,         \* the latest result of map_norm_to_screen
    \* ---- SmoothFilter (smoothing.py)
    smoother,       \* the fields buffer_x, buffer_y and prev of main.py's smoother
    smoothed,       \* the pair update() returned for the latest frame
    \* ---- UI settings
    ui_settings,    \* content of eye_cursor_ui_settings.json
    blink_eye_close_thr,  \* the attribute eye_close_thr the reload sets on blink
    \* ---- cursor
    curr_cursor     \* main.py: where the loop last moved the pointer

blinkVars == <<min_closed_ms, l_closed_raw, r_closed_raw, prev_L, prev_R, prev_B,
               tL, tR, tB, both_dominant, rawL, rawR, bstate>>

lockVars == <<targets, locked_target, candidate, candidate_start, away_since,
              gaze_history, lres, targets_cache>>

mainVars == <<drag_active, drag_start_time, drag_source, scroll_mode,
              both_closed_start, last_left_click_time, last_scroll_time, calls,
              running>>

calVars == <<points, dx_min, dx_max, dy_min, dy_max, cal_file, cal_idx, cal_samples,
             cal_elapsed, mapped>>

smoothVars == <<smoother, smoothed>>

settingsVars == <<ui_settings, blink_eye_close_thr>>

cursorVars == <<curr_cursor>>

vars == <<now, last_op, blinkVars, lockVars, mainVars, calVars, smoothVars, settingsVars, cursorVars>>

----------------------------------------------------------------------------
(* Bounds of the model *)

\* last clock value a frame may carry
MaxTime == 12
\* largest gap between two consecutive frames
MaxDt == 2

\* last clock value a push_gaze tick may carry
MaxLockTime == 5
\* largest x coordinate of a gaze point (pixels)
MaxX == 4
\* GazeLockManager constructor arguments.  main.py passes 18 / 115 / 240 px,
\* 0.06 s, 0.25 s, 190 px/s and a window of 6; the model constructs the
\* manager with arguments scaled to the small screen and clock: distances in
\* pixels, times in ms, velocity in pixels per ms.
DeadZonePx == 1
SnapRadiusPx == 2
UnlockDistancePx == 3
DwellTime == 2
SustainedAwayTime == 3
VelocityThreshold == 1
VelWindow == 2

\* last clock value an iteration of the main loop may carry
MaxMainTime == 6
\* main.py timing constants.  main.py sets MAX_DRAG_DURATION = 2.5 s,
\* DOUBLE_CLICK_WINDOW = 0.55 s, SCROLL_ACTIVATION = 0.23 s and
\* SCROLL_COOLDOWN = 0.10 s; the model runs the loop with values scaled to its
\* clock, in ms.
MaxDragDuration == 3
DoubleClickWindow == 4
ScrollActivation == 3
ScrollCooldown == 1

\* Calibration: number of calibration points (13 in CALIB_POINTS_REL_13), the
\* arguments of _collect (min_samples = 8, max_samples = 20, max_time = 2.5 s)
\* and the least number of samples record_all keeps a point for (4), scaled;
\* the longest collection the model follows; the screen size handed to
\* map_norm_to_screen.
NumPoints == 2
MinSamples == 2
MaxSamples == 3
KeepSamples == 1
MaxCollectTime == 2
MaxCalElapsed == 4
ScreenW == 30
ScreenH == 26

\* the cursor update: max_step of the states locked, candidate and free (50,
\* 70 and 55 px on the real screen), and the number of frames followed
LockedMaxStep == 3
CandidateMaxStep == 4
FreeMaxStep == 5
MaxCursorTime == 6

\* SmoothFilter: ma_window (default 5, main.py passes 6), scaled
MaWindow == 2

\* the settings reload interval of main.py (0.22 s), scaled to the clock
UiReloadInterval == 2

(* Program constants *)

\* eye_close_thr = 0.018, in units of 0.001
EyeCloseThr == 18
\* open_thr_offset = 0.003, in units of 0.001
OpenThrOffset == 3
\* map_norm_to_screen(..., m=12)
Margin == 12
\* exp_alpha = 0.8 = AlphaNum / AlphaDen
AlphaNum == 4
AlphaDen == 5

----------------------------------------------------------------------------
(* BlinkDetector.__init__ *)

close_thr == EyeCloseThr
open_thr == EyeCloseThr + OpenThrOffset

\* blink_min <= d <= blink_max with blink_min = 0.4*base, blink_max = 3.0*base
InBlinkWindow(base, d) == 4 * base <= 10 * d /\ d <= 3 * base

\* wink_min <= d <= wink_max with wink_min = 0.5*base, wink_max = 3.5*base
InWinkWindow(base, d) == 5 * base <= 10 * d /\ 10 * d <= 35 * base

\* min_closed_ms values the detector is constructed with: 3 ms gives the
\* windows [1.2, 9] and [1.5, 10.5], 5 ms gives [2, 15] and [2.5, 17.5]
MinClosedChoices == {3, 5}

\* ratios offered to the detector: around both thresholds
Ratios == {close_thr - 1, open_thr - 1, open_thr, open_thr + 1}

NoEvents == [left_closed |-> FALSE, right_closed |-> FALSE, both_closed |-> FALSE,
             left_blink |-> FALSE, right_blink |-> FALSE, both_blink |-> FALSE]

BlinkInit ==
    /\ min_closed_ms \in MinClosedChoices
    /\ l_closed_raw = FALSE /\ r_closed_raw = FALSE
    /\ prev_L = FALSE /\ prev_R = FALSE /\ prev_B = FALSE
    /\ tL = 0 /\ tR = 0 /\ tB = 0
    /\ both_dominant = FALSE
    /\ rawL = open_thr + 1 /\ rawR = open_thr + 1
    /\ bstate = NoEvents

----------------------------------------------------------------------------
(* BlinkDetector.update *)

\* step 2: hysteresis on one raw channel
HysteresisSingleThr(closed, ratio) == ratio < close_thr
Hysteresis(closed, ratio) ==
    IF ~closed THEN ratio < close_thr ELSE ratio < open_thr

\* step 3: flip correction, image channels -> user eyes
UserLeftNoSwap(lraw, rraw) == lraw
UserLeft(lraw, rraw) == rraw
UserRight(lraw, rraw) == lraw

\* "both just closed" / "both just opened"
BothJustClosed(B, pB) == B /\ ~pB
BothJustOpenedNoPrev(B, pB) == ~B
BothJustOpened(B, pB) == (~B) /\ pB

\* the final "if both_blink: left_blink = False; right_blink = False"
KeepWink(both_blink, wink) == wink
DiscardWink(both_blink, wink) == IF both_blink THEN FALSE ELSE wink

\* the wink test of one eye: (not both_dominant) and wink_min <= d <= wink_max
WinkTest(dominant, d) == (~dominant) /\ InWinkWindow(min_closed_ms, d)

\* the blink test: blink_min <= dB <= blink_max
BlinkTestOpenMin(d) == 4 * min_closed_ms < 10 * d /\ d <= 3 * min_closed_ms
BlinkTest(d) == InBlinkWindow(min_closed_ms, d)

BlinkUpdate(dt, rl, rr) ==
    /\ now + dt <= MaxTime
    /\ LET t    == now + dt
           lc   == Hysteresis(l_closed_raw, rl)
           rc   == Hysteresis(r_closed_raw, rr)
           L    == UserLeft(lc, rc)
           R    == UserRight(lc, rc)
           B    == L /\ R
           \* both-eye section
           tB1  == IF BothJustClosed(B, prev_B) THEN t ELSE tB
           dom1 == IF BothJustClosed(B, prev_B) THEN TRUE ELSE both_dominant
           bb   == BothJustOpened(B, prev_B) /\ BlinkTest(t - tB1)
           dom2 == IF BothJustOpened(B, prev_B) THEN FALSE ELSE dom1
           \* left (user) eye section
           tL1  == IF L /\ ~prev_L THEN t ELSE tL
           lb   == (~L) /\ prev_L /\ WinkTest(dom2, t - tL1)
           \* right (user) eye section
           tR1  == IF R /\ ~prev_R THEN t ELSE tR
           rb   == (~R) /\ prev_R /\ WinkTest(dom2, t - tR1)
       IN  /\ now' = t
           /\ l_closed_raw' = lc /\ r_closed_raw' = rc
           /\ rawL' = rl /\ rawR' = rr
           /\ tB' = tB1 /\ tL' = tL1 /\ tR' = tR1
           /\ both_dominant' = dom2
           /\ prev_L' = L /\ prev_R' = R /\ prev_B' = B
           /\ bstate' = [left_closed |-> L, right_closed |-> R, both_closed |-> B,
                         left_blink  |-> DiscardWink(bb, lb),
                         right_blink |-> DiscardWink(bb, rb),
                         both_blink  |-> bb]
           /\ last_op' = "blink_update"
           /\ UNCHANGED min_closed_ms


----------------------------------------------------------------------------
(* GazeLockManager.__init__ *)
(* lock_time is written and never read, and the Kalman filter's result is  *)
(* discarded by push_gaze: neither is part of the state below.             *)

Nil == [id |-> "none", center |-> <<0, 0>>]
NoTime == -1

TargetA == [id |-> "a", center |-> <<0, 0>>]
TargetB == [id |-> "b", center |-> <<MaxX, 0>>]

\* snapshots collect_clickable_targets() may return
Snapshots == {<<>>, <<TargetA>>, <<TargetA, TargetB>>}

\* gaze points push_gaze() may be handed
GazePoints == {<<x, 0>> : x \in 0..MaxX}

NoResult == [state |-> "free", target |-> Nil, cursor_pos |-> <<0, 0>>,
             action |-> "none", time_left |-> NoTime]

LockInit ==
    /\ targets = <<>>
    /\ locked_target = Nil
    /\ candidate = Nil
    /\ candidate_start = NoTime
    /\ away_since = NoTime
    /\ gaze_history = <<>>
    /\ lres = NoResult
    /\ targets_cache = <<>>

----------------------------------------------------------------------------
(* GazeLockManager.estimate_velocity and dist, as comparisons *)

\* dist(a, b) ** 2
Dist2(a, b) == (a[1] - b[1]) * (a[1] - b[1]) + (a[2] - b[2]) * (a[2] - b[2])

\* deque(maxlen=vel_window).append
Push(h, e) == IF Len(h) < VelWindow THEN Append(h, e) ELSE Append(Tail(h), e)

\* estimate_velocity returns 0.0: fewer than 2 samples, or no time elapsed
VelIsZeroShortOnly(h) == Len(h) < 2
VelIsZero(h) == Len(h) < 2 \/ h[Len(h)].t - h[1].t <= 0

Span(h) == h[Len(h)].t - h[1].t
Disp2(h) == Dist2(h[Len(h)].p, h[1].p)

\* vel > vel_thresh
VelAbove(h) ==
    /\ ~VelIsZero(h)
    /\ Disp2(h) > VelocityThreshold * VelocityThreshold * Span(h) * Span(h)

\* vel < vel_thresh * 0.35
VelLowNeedsMotion(h) ==
    /\ ~VelIsZero(h)
    /\ 400 * Disp2(h) < 49 * VelocityThreshold * VelocityThreshold * Span(h) * Span(h)
VelLow(h) ==
    IF VelIsZero(h) THEN 0 < VelocityThreshold
    ELSE 400 * Disp2(h) < 49 * VelocityThreshold * VelocityThreshold * Span(h) * Span(h)

\* the "find nearest" loop: the first target at the least distance
Nearest(ts, g) ==
    IF Len(ts) = 0 THEN Nil
    ELSE LET i == CHOOSE i \in 1..Len(ts) :
                    /\ \A j \in 1..Len(ts) : Dist2(g, ts[i].center) <= Dist2(g, ts[j].center)
                    /\ \A j \in 1..(i - 1) : Dist2(g, ts[j].center) > Dist2(g, ts[i].center)
         IN  ts[i]

----------------------------------------------------------------------------
(* GazeLockManager.push_gaze *)

\* d > unlock_distance and vel > vel_thresh
FastEscapeInverted(g, h) ==
    /\ Dist2(g, locked_target.center) > UnlockDistancePx * UnlockDistancePx
    /\ ~VelAbove(h)
FastEscape(g, h) ==
    /\ Dist2(g, locked_target.center) > UnlockDistancePx * UnlockDistancePx
    /\ VelAbove(h)

\* now - away_since >= sustained_away_time
AwayExpired(t) == t - away_since >= SustainedAwayTime

ResultDropsTarget(st, tg, pos, act, left) ==
    [state |-> st, target |-> Nil, cursor_pos |-> pos, action |-> act, time_left |-> left]
Result(st, tg, pos, act, left) ==
    [state |-> st, target |-> tg, cursor_pos |-> pos, action |-> act, time_left |-> left]

\* d <= dead_zone
InDeadZone(g) == Dist2(g, locked_target.center) <= DeadZonePx * DeadZonePx

\* lines 66-69 and 88-90: clear the away timer and hold the cursor on the
\* centre of the locked target
HoldLockKeepTimer ==
    /\ lres' = Result("locked", locked_target, locked_target.center, "none", NoTime)
    /\ UNCHANGED <<locked_target, candidate, candidate_start, away_since>>
HoldLock ==
    /\ away_since' = NoTime
    /\ lres' = Result("locked", locked_target, locked_target.center, "none", NoTime)
    /\ UNCHANGED <<locked_target, candidate, candidate_start>>

\* the branch taken while a target is locked (lines 63-90)
PushLocked(t, g, h) ==
    LET tx == locked_target.center
        d2 == Dist2(g, tx)
    IN  IF InDeadZone(g) THEN
            HoldLock
        ELSE IF FastEscape(g, h) THEN
            /\ locked_target' = Nil
            /\ away_since' = NoTime
            /\ candidate' = Nil
            /\ lres' = Result("free", Nil, g, "unlock", NoTime)
            /\ UNCHANGED candidate_start
        ELSE IF d2 > UnlockDistancePx * UnlockDistancePx THEN
            IF away_since = NoTime THEN
                /\ away_since' = t
                /\ lres' = Result("locked", locked_target, tx, "none", NoTime)
                /\ UNCHANGED <<locked_target, candidate, candidate_start>>
            ELSE IF AwayExpired(t) THEN
                /\ locked_target' = Nil
                /\ away_since' = NoTime
                /\ candidate' = Nil
                /\ lres' = Result("free", Nil, g, "unlock_sustained", NoTime)
                /\ UNCHANGED candidate_start
            ELSE
                /\ lres' = Result("locked", locked_target, tx, "none", NoTime)
                /\ UNCHANGED <<locked_target, candidate, candidate_start, away_since>>
        ELSE
            HoldLock

\* now - candidate_start >= dwell_time
DwellElapsedStrict(t) == t - candidate_start > DwellTime
DwellElapsed(t) == t - candidate_start >= DwellTime

\* nearest is None or nearest_d > self.snap_radius
OutOfSnapOnlyEmpty(nearest, g) == nearest = Nil
OutOfSnap(nearest, g) ==
    nearest = Nil \/ Dist2(g, nearest.center) > SnapRadiusPx * SnapRadiusPx

\* the branch taken while no target is locked (lines 92-124)
PushUnlocked(t, g, h) ==
    LET nearest == Nearest(targets, g)
    IN  IF OutOfSnap(nearest, g) THEN
            /\ candidate' = Nil
            /\ candidate_start' = NoTime
            /\ lres' = Result("free", Nil, g, "none", NoTime)
            /\ UNCHANGED <<locked_target, away_since>>
        ELSE IF VelLow(h) THEN
            /\ locked_target' = nearest
            /\ candidate' = Nil
            /\ candidate_start' = NoTime
            /\ lres' = Result("locked", nearest, nearest.center, "snap", NoTime)
            /\ UNCHANGED away_since
        ELSE IF candidate = Nil \/ candidate.id # nearest.id THEN
            /\ candidate' = nearest
            /\ candidate_start' = t
            /\ lres' = Result("candidate", nearest, nearest.center,
                              "candidate_started", DwellTime)
            /\ UNCHANGED <<locked_target, away_since>>
        ELSE IF DwellElapsed(t) THEN
            /\ locked_target' = candidate
            /\ candidate' = Nil
            /\ candidate_start' = NoTime
            /\ lres' = Result("locked", candidate, candidate.center, "snap", NoTime)
            /\ UNCHANGED away_since
        ELSE
            /\ lres' = Result("candidate", nearest, nearest.center, "dwell",
                              DwellTime - (t - candidate_start))
            /\ UNCHANGED <<locked_target, candidate, candidate_start, away_since>>

\* if self.locked_target:
IsLockedInSnapshot ==
    /\ locked_target # Nil
    /\ \E i \in 1..Len(targets) : targets[i].id = locked_target.id
IsLocked == locked_target # Nil

PushGaze(dt, g) ==
    /\ now + dt <= MaxLockTime
    /\ LET t == now + dt
           h == Push(gaze_history, [p |-> g, t |-> t])
       IN  /\ now' = t
           /\ gaze_history' = h
           /\ IF IsLocked THEN PushLocked(t, g, h) ELSE PushUnlocked(t, g, h)
    /\ last_op' = "push_gaze"
    /\ UNCHANGED <<targets, targets_cache>>

----------------------------------------------------------------------------
(* main.py: scan_targets and the voice commands that touch the lock *)

\* scan_targets: collect_clickable_targets() returned snap
ScanTargets(snap) ==
    /\ targets_cache' = snap
    /\ targets' = snap
    /\ last_op' = "main"
    /\ UNCHANGED <<now, locked_target, candidate, candidate_start, away_since,
                   gaze_history, lres>>

\* scan_targets: collect_clickable_targets() raised
ScanFailed ==
    /\ targets_cache' = <<>>
    /\ last_op' = "main"
    /\ UNCHANGED <<now, targets, locked_target, candidate, candidate_start,
                   away_since, gaze_history, lres>>

\* handle_voice_command, phrase "lock"
VoiceLock ==
    /\ Len(targets_cache) > 0
    /\ locked_target' = targets_cache[1]
    /\ last_op' = "main"
    /\ UNCHANGED <<now, targets, targets_cache, candidate, candidate_start,
                   away_since, gaze_history, lres>>

\* handle_voice_command, a phrase that reaches line 564: one matched by the
\* "unlock" list and not by the "lock" list ("unlock it"), or matched by
\* both ("unlock", "lock") while targets_cache is empty
VoiceUnlock ==
    /\ locked_target' = Nil
    /\ last_op' = "main"
    /\ UNCHANGED <<now, targets, targets_cache, candidate, candidate_start,
                   away_since, gaze_history, lres>>

----------------------------------------------------------------------------
(* main.py: drag, click and scroll state of the loop *)

\* 0.0 on the scale of time.time(), whose readings are seconds since 1970:
\* further in the past than any window of the model reaches
Epoch == -20

\* the settings file: as write_default_ui_settings (lines 73-88) writes it
\* when main.py is imported, with every value changed and actions enabled,
\* and absent
DefaultSettings ==
    [exists |-> TRUE, enable_actions |-> FALSE, eye_close_thr |-> EyeCloseThr,
     min_closed_ms |-> 3, snap_radius |-> SnapRadiusPx, dwell_time |-> DwellTime,
     smoothing_window |-> MaWindow]
TunedSettings ==
    [exists |-> TRUE, enable_actions |-> TRUE, eye_close_thr |-> EyeCloseThr + 4,
     min_closed_ms |-> 5, snap_radius |-> SnapRadiusPx + 1, dwell_time |-> DwellTime + 1,
     smoothing_window |-> MaWindow]
NoSettings == [exists |-> FALSE]
SettingsChoices == {DefaultSettings, TunedSettings, NoSettings}

\* blink has no attribute eye_close_thr / the attribute is None
NoAttr == 0 - 2
AttrNone == 0 - 1

SettingsInit ==
    /\ ui_settings = DefaultSettings
    /\ blink_eye_close_thr = NoAttr

MainInit ==
    /\ drag_active = FALSE
    /\ drag_start_time = Epoch
    /\ drag_source = "none"
    /\ scroll_mode = FALSE
    /\ both_closed_start = NoTime
    /\ last_left_click_time = Epoch
    /\ last_scroll_time = Epoch
    /\ calls = <<>>
    /\ running = TRUE

\* ratios offered to the detector by the loop: an eye shut or wide open
MainRatios == {close_thr - 1, open_thr + 1}

\* dy against HEAD_MOVE_THRESHOLD: head raised, lowered or level
HeadMoves == {"up", "down", "level"}

\* now - both_closed_start >= SCROLL_ACTIVATION
ScrollActivated(t, start) == t - start >= ScrollActivation

\* if both_blink and drag_active
BlinkNeverReleases(bb, da) == FALSE
BlinkReleasesDrag(bb, da) == bb /\ da

\* dt <= DOUBLE_CLICK_WINDOW
IsDoubleClickAlways(t) == TRUE
IsDoubleClick(t) == t - last_left_click_time <= DoubleClickWindow

\* now - drag_start_time > MAX_DRAG_DURATION
DragTimedOut(t) == t - drag_start_time > MaxDragDuration

\* left_closed and not right_closed and not both_closed and not scroll_mode
DragGesture(L, R, B, sm) == L /\ ~R /\ ~B /\ ~sm

\* one iteration of the loop with a face in the frame (lines 665-790): the
\* detector classifies the frame, then scroll mode, clicks, drag and scroll
\* are handled in this order.  head is the head movement of the frame.
\* the settings reload of a face frame (lines 710-730).  The throttle reads
\* _last_ui_settings_time with getattr from the dict globals(), which has no
\* such attribute: it is 0.0 on every frame and the file is read on every
\* frame.  enable_actions is assigned to a local of main() that nothing
\* reads; min_closed_ms, snap_radius and dwell_time are not looked at; the
\* smoother is re-created (RecreateSmoother); eye_close_thr is stored in a
\* new attribute of the detector, None the first time, because the detector
\* has no such attribute until then (hasattr).
\* the throttle (lines 711-713): now - _last_ui_settings_time > 0.22 with
\* _last_ui_settings_time read as 0.0
ReadsSettings(t) == t - Epoch > UiReloadInterval

ReloadedAttr(s, attr) ==
    IF s.exists /\ "eye_close_thr" \in DOMAIN s
    THEN (IF attr = NoAttr THEN AttrNone ELSE s.eye_close_thr)
    ELSE attr

\* the rest of a face frame, after the gesture actions (lines 792-838):
\* calib.map_norm_to_screen, smoother.update, lockmgr.push_gaze and, in each
\* of the three lock states, pyautogui.moveTo
GazeSteps == <<"map_norm_to_screen", "smoother.update", "push_gaze", "moveTo">>

FaceFrame(dt, rl, rr, head) ==
    /\ now + dt <= MaxMainTime
    /\ BlinkUpdate(dt, rl, rr)
    /\ LET t  == now'
           L  == bstate'.left_closed
           R  == bstate'.right_closed
           B  == bstate'.both_closed
           bb == bstate'.both_blink
           rb == bstate'.right_blink
           \* mode management: scroll mode
           bcs == IF B THEN (IF both_closed_start = NoTime THEN t ELSE both_closed_start)
                  ELSE NoTime
           sm  == IF B THEN scroll_mode \/ (ScrollActivated(t, bcs) /\ ~drag_active)
                  ELSE FALSE
           \* click actions
           rel == (~sm) /\ BlinkReleasesDrag(bb, drag_active)
           da1 == drag_active /\ ~rel
           c1  == IF rel THEN <<"mouseUp">> ELSE <<>>
           dbl == IsDoubleClick(t)
           c2  == IF (~sm) /\ bb
                  THEN Append(c1, IF dbl THEN "doubleClick" ELSE "click")
                  ELSE c1
           c3  == IF (~sm) /\ rb THEN Append(c2, "rightClick") ELSE c2
           \* drag
           g    == DragGesture(L, R, B, sm)
           down == g /\ ~da1
           up   == IF g THEN da1 /\ DragTimedOut(t) ELSE da1
           da2  == (da1 \/ down) /\ ~up
           c4   == IF down THEN Append(c3, "mouseDown")
                   ELSE IF up THEN Append(c3, "mouseUp") ELSE c3
           \* scroll
           scr  == sm /\ B /\ (~da2) /\ t - last_scroll_time > ScrollCooldown
                      /\ head # "level"
       IN  /\ both_closed_start' = bcs
           /\ scroll_mode' = sm
           /\ last_left_click_time' =
                 IF (~sm) /\ bb THEN (IF dbl THEN Epoch ELSE t) ELSE last_left_click_time
           /\ drag_active' = da2
           /\ drag_start_time' = IF down THEN t ELSE drag_start_time
           /\ drag_source' = IF down THEN "gesture" ELSE IF da2 THEN drag_source ELSE "none"
           /\ last_scroll_time' = IF scr THEN t ELSE last_scroll_time
           /\ calls' = (IF scr THEN Append(c4, "scroll") ELSE c4) \o GazeSteps
           /\ blink_eye_close_thr' =
                 IF ReadsSettings(t) THEN ReloadedAttr(ui_settings, blink_eye_close_thr)
                 ELSE blink_eye_close_thr

\* an iteration whose frame shows no face (line 665 false): only time passes
NoFaceFrameCancels(dt) ==
    /\ now + dt <= MaxMainTime
    /\ now' = now + dt
    /\ last_op' = "no_face"
    /\ calls' = <<>>
    /\ tB' = now'
    /\ both_closed_start' = NoTime
    /\ UNCHANGED <<min_closed_ms, l_closed_raw, r_closed_raw, prev_L, prev_R, prev_B,
                   tL, tR, both_dominant, rawL, rawR, bstate,
                   drag_active, drag_start_time, drag_source, scroll_mode,
                   last_left_click_time, last_scroll_time>>
NoFaceFrame(dt) ==
    /\ now + dt <= MaxMainTime
    /\ now' = now + dt
    /\ last_op' = "no_face"
    /\ calls' = <<>>
    /\ UNCHANGED <<blinkVars, drag_active, drag_start_time, drag_source, scroll_mode,
                   both_closed_start, last_left_click_time, last_scroll_time>>

\* an iteration whose cap.read() fails (lines 657-659): continue
NoFrame(dt) ==
    /\ now + dt <= MaxMainTime
    /\ now' = now + dt
    /\ last_op' = "main"
    /\ calls' = <<>>
    /\ UNCHANGED <<blinkVars, drag_active, drag_start_time, drag_source, scroll_mode,
                   both_closed_start, last_left_click_time, last_scroll_time>>

\* key 'r' (lines 880-882): calib.record_all blocks the loop while it samples
Recalibrate(dt) ==
    /\ now + dt <= MaxMainTime
    /\ now' = now + dt
    /\ last_op' = "main"
    /\ calls' = <<>>
    /\ UNCHANGED <<blinkVars, drag_active, drag_start_time, drag_source, scroll_mode,
                   both_closed_start, last_left_click_time, last_scroll_time>>

\* handle_voice_command, a "start_drag" phrase (lines 474-479)
VoiceStartDragUnguarded ==
    /\ calls' = <<"mouseDown">>
    /\ drag_active' = TRUE
    /\ drag_start_time' = now
    /\ drag_source' = "voice"
    /\ last_op' = "main"
    /\ UNCHANGED <<now, blinkVars, scroll_mode, both_closed_start,
                   last_left_click_time, last_scroll_time>>
VoiceStartDrag ==
    /\ IF ~drag_active
       THEN /\ calls' = <<"mouseDown">>
            /\ drag_active' = TRUE
            /\ drag_start_time' = now
            /\ drag_source' = "voice"
       ELSE /\ calls' = <<>>
            /\ UNCHANGED <<drag_active, drag_start_time, drag_source>>
    /\ last_op' = "main"
    /\ UNCHANGED <<now, blinkVars, scroll_mode, both_closed_start,
                   last_left_click_time, last_scroll_time>>

\* handle_voice_command, a "stop_drag" phrase (lines 480-483)
VoiceStopDrag ==
    /\ IF drag_active
       THEN /\ calls' = <<"mouseUp">>
            /\ drag_active' = FALSE
            /\ drag_source' = "none"
       ELSE /\ calls' = <<>>
            /\ UNCHANGED <<drag_active, drag_source>>
    /\ last_op' = "main"
    /\ UNCHANGED <<now, blinkVars, drag_start_time, scroll_mode, both_closed_start,
                   last_left_click_time, last_scroll_time>>

\* key 'q' (lines 873-874) and the cleanup after the loop (lines 902-909):
\* break, cap.release(), cv2.destroyAllWindows()
Quit ==
    /\ running' = FALSE
    /\ calls' = <<>>
    /\ last_op' = "main"
    /\ UNCHANGED <<now, blinkVars, drag_active, drag_start_time, drag_source, scroll_mode,
                   both_closed_start, last_left_click_time, last_scroll_time>>

\* main_with_ui.py, stop_engine -> EngineWorker.stop: the thread running
\* main() is terminated and the camera released
UiStop ==
    /\ running' = FALSE
    /\ calls' = <<>>
    /\ last_op' = "main"
    /\ UNCHANGED <<now, blinkVars, drag_active, drag_start_time, drag_source, scroll_mode,
                   both_closed_start, last_left_click_time, last_scroll_time>>

----------------------------------------------------------------------------
(* calibration.py: Calibration *)
(* Normalised gaze coordinates lie on a grid of NormOne steps per 1.0.     *)
(* Anchors and extents are kept doubled, so that the median of an even     *)
(* number of samples, the mean of the two middle ones, stays an integer.   *)

NormOne == 2

\* CALIB_POINTS_REL_13, of which the model calibrates the first NumPoints
PointsDef == <<"TL", "TC", "TR", "QL", "QC", "QR", "CL", "CC", "CR",
               "BL", "BC", "BR", "C2">>

\* what norm_func() may return for a frame, besides None
SampleValues == {<<0, 0>>, <<2, 1>>}
None == <<-1, -1>>

\* gaze inputs handed to map_norm_to_screen: inside and outside [0, 1]
NormInputs == {<<x, y>> : x \in (0 - 1)..(NormOne + 1), y \in {0 - 1, 1, NormOne + 1}}

NoFile == [exists |-> FALSE, points |-> <<>>, dx_min |-> 0, dx_max |-> 0,
           dy_min |-> 0, dy_max |-> 0]

\* Calibration.__init__, and main.py lines 110-117 on a machine without
\* calibration_data.json: record_all starts at once
CalInit ==
    /\ points = <<>>
    /\ dx_min = 0 /\ dx_max = 2 * NormOne
    /\ dy_min = 0 /\ dy_max = 2 * NormOne
    /\ cal_file = NoFile
    /\ cal_idx = 1
    /\ cal_samples = <<>>
    /\ cal_elapsed = 0
    /\ mapped = <<Margin, Margin>>

Min2(a, b) == IF a <= b THEN a ELSE b
Max2(a, b) == IF a >= b THEN a ELSE b
SeqMin(xs) == CHOOSE v \in {xs[i] : i \in 1..Len(xs)} : \A i \in 1..Len(xs) : v <= xs[i]
SeqMax(xs) == CHOOSE v \in {xs[i] : i \in 1..Len(xs)} : \A i \in 1..Len(xs) : v >= xs[i]

\* the k-th smallest element of xs
Kth(xs, k) ==
    CHOOSE v \in {xs[i] : i \in 1..Len(xs)} :
        /\ Cardinality({i \in 1..Len(xs) : xs[i] < v}) < k
        /\ Cardinality({i \in 1..Len(xs) : xs[i] <= v}) >= k

\* 2 * statistics.median(xs)
Median2(xs) ==
    IF Len(xs) % 2 = 1 THEN 2 * Kth(xs, (Len(xs) + 1) \div 2)
    ELSE Kth(xs, Len(xs) \div 2) + Kth(xs, Len(xs) \div 2 + 1)

Xs(ss) == [i \in 1..Len(ss) |-> ss[i][1]]
Ys(ss) == [i \in 1..Len(ss) |-> ss[i][2]]
AnchorXs(ps) == [i \in 1..Len(ps) |-> ps[i].a[1]]
AnchorYs(ps) == [i \in 1..Len(ps) |-> ps[i].a[2]]

\* dx_min, dx_max, dy_min, dy_max of a profile with anchors ps (lines 138-143)
Extent(ps) == <<SeqMin(AnchorXs(ps)), SeqMax(AnchorXs(ps)),
                SeqMin(AnchorYs(ps)), SeqMax(AnchorYs(ps))>>

\* save(): the JSON document written for anchors ps and extent e
Encode(ps, e) ==
    [exists |-> TRUE,
     points |-> [i \in 1..Len(ps) |-> [name |-> ps[i].name, a |-> <<ps[i].a[1], ps[i].a[2]>>]],
     dx_min |-> e[1], dx_max |-> e[2], dy_min |-> e[3], dy_max |-> e[4]]

\* the stopping rules of _collect (lines 103-106)
StopRule(n, elapsed) ==
    \/ n >= MaxSamples
    \/ (elapsed >= MaxCollectTime /\ n >= MinSamples)

\* not (len(s) < 4)
PointKept(ss) == Len(ss) >= KeepSamples

\* record_all after _collect returned ss for the point at cal_idx: keep or
\* skip the point, then go on to the next point or finish (lines 129-146)
EndPoint(ss) ==
    LET ps == IF PointKept(ss)
              THEN Append(points, [name |-> PointsDef[cal_idx],
                                   a |-> <<Median2(Xs(ss)), Median2(Ys(ss))>>])
              ELSE points
    IN  /\ points' = ps
        /\ cal_samples' = <<>>
        /\ cal_elapsed' = 0
        /\ IF cal_idx < NumPoints THEN
               /\ cal_idx' = cal_idx + 1
               /\ UNCHANGED <<dx_min, dx_max, dy_min, dy_max, cal_file>>
           ELSE IF Len(ps) = 0 THEN
               \* min() of an empty list raises ValueError
               /\ cal_idx' = 0
               /\ UNCHANGED <<dx_min, dx_max, dy_min, dy_max, cal_file>>
           ELSE
               /\ cal_idx' = 0
               /\ dx_min' = Extent(ps)[1] /\ dx_max' = Extent(ps)[2]
               /\ dy_min' = Extent(ps)[3] /\ dy_max' = Extent(ps)[4]
               /\ cal_file' = Encode(ps, Extent(ps))

\* record_all up to the first _collect (lines 111-127)
StartRecordAll ==
    /\ cal_idx = 0
    /\ points' = <<>>
    /\ cal_idx' = 1
    /\ cal_samples' = <<>>
    /\ cal_elapsed' = 0
    /\ last_op' = "record_all"
    /\ UNCHANGED <<dx_min, dx_max, dy_min, dy_max, cal_file, mapped>>

\* one iteration of the loop of _collect (lines 73-106): cap.read() returned
\* ok, norm_func() returned v (None when it raised), dt passed since the
\* iteration before
CollectFrame(ok, v, dt) ==
    /\ cal_idx > 0
    /\ cal_elapsed + dt <= MaxCalElapsed
    /\ LET e  == cal_elapsed + dt
           ss == IF v # None THEN Append(cal_samples, v) ELSE cal_samples
       IN  IF ~ok THEN
               /\ cal_elapsed' = e
               /\ UNCHANGED <<points, dx_min, dx_max, dy_min, dy_max, cal_file,
                              cal_idx, cal_samples>>
           ELSE IF StopRule(Len(ss), e) THEN
               EndPoint(ss)
           ELSE
               /\ cal_samples' = ss
               /\ cal_elapsed' = e
               /\ UNCHANGED <<points, dx_min, dx_max, dy_min, dy_max, cal_file, cal_idx>>
    /\ last_op' = IF ok THEN "collect" ELSE "no_read"
    /\ UNCHANGED mapped

\* load(): the anchors and the extent read back from document f
DecodePoints(f) ==
    [i \in 1..Len(f.points) |->
        [name |-> f.points[i].name, a |-> <<f.points[i].a[1], f.points[i].a[2]>>]]
DecodeExtentMixed(f) == <<f.dx_min, f.dy_max, f.dy_min, f.dx_max>>
DecodeExtent(f) == <<f.dx_min, f.dx_max, f.dy_min, f.dy_max>>

\* a new process (lines 110-117): a fresh Calibration, which loads the file
\* if there is one and starts record_all if there is none
Startup ==
    /\ cal_samples' = <<>>
    /\ cal_elapsed' = 0
    /\ IF cal_file.exists THEN
           /\ points' = DecodePoints(cal_file)
           /\ dx_min' = DecodeExtent(cal_file)[1] /\ dx_max' = DecodeExtent(cal_file)[2]
           /\ dy_min' = DecodeExtent(cal_file)[3] /\ dy_max' = DecodeExtent(cal_file)[4]
           /\ cal_idx' = 0
           /\ last_op' = "load"
       ELSE
           /\ points' = <<>>
           /\ dx_min' = 0 /\ dx_max' = 2 * NormOne
           /\ dy_min' = 0 /\ dy_max' = 2 * NormOne
           /\ cal_idx' = 1
           /\ last_op' = "record_all"
    /\ UNCHANGED <<cal_file, mapped>>

\* map_norm_to_screen (lines 149-158), one axis.  n is the input on the grid,
\* lo and hi the doubled extent, size the screen dimension.
Clamp(v, lo, hi) == Min2(Max2(v, lo), hi)

\* rx after min(max(rx, 0), 1), as numerator and denominator.  With a span
\* of 0 or less the denominator is 1e-6, and every grid distance is far
\* above it: the quotient clamps to 0 or to 1.
Ratio(n2, lo, hi) ==
    IF hi - lo > 0 THEN <<Clamp(n2 - lo, 0, hi - lo), hi - lo>>
    ELSE IF n2 > lo THEN <<1, 1>> ELSE <<0, 1>>

\* max(m, min(size - m, s))
ToScreenNoMargin(s, size) == s
ToScreen(s, size) == Max2(Margin, Min2(size - Margin, s))

MapAxis(n, lo, hi, size) ==
    LET r == Ratio(2 * n, lo, hi)
    IN  ToScreen((r[1] * size) \div r[2], size)

MapNormToScreen(in, e) ==
    <<MapAxis(in[1], e[1], e[2], ScreenW), MapAxis(in[2], e[3], e[4], ScreenH)>>

\* the loop maps a gaze sample (main.py line 799)
MapNorm(in) ==
    /\ cal_idx = 0
    /\ mapped' = MapNormToScreen(in, <<dx_min, dx_max, dy_min, dy_max>>)
    /\ last_op' = "map"
    /\ UNCHANGED <<points, dx_min, dx_max, dy_min, dy_max, cal_file, cal_idx,
                   cal_samples, cal_elapsed>>

\* record_all run by the UI's calibration thread (main_with_ui.py lines
\* 304-315) while the engine thread goes on mapping: the statements of lines
\* 140-143 are separate steps.  cal_idx = NumPoints + k is the position
\* before the k-th of the four assignments.
ThreadEndPoint(ss) ==
    LET ps == IF PointKept(ss)
              THEN Append(points, [name |-> PointsDef[cal_idx],
                                   a |-> <<Median2(Xs(ss)), Median2(Ys(ss))>>])
              ELSE points
    IN  /\ points' = ps
        /\ cal_samples' = <<>>
        /\ cal_elapsed' = 0
        /\ cal_idx' = IF cal_idx < NumPoints THEN cal_idx + 1
                      ELSE IF Len(ps) = 0 THEN 0    \* ValueError, caught by the runner
                      ELSE NumPoints + 1

\* one iteration of the loop of _collect in the calibration thread
ThreadCollect(ok, v, dt) ==
    /\ cal_idx \in 1..NumPoints
    /\ cal_elapsed + dt <= MaxCalElapsed
    /\ LET e  == cal_elapsed + dt
           ss == IF v # None THEN Append(cal_samples, v) ELSE cal_samples
       IN  IF ~ok THEN
               /\ cal_elapsed' = e
               /\ UNCHANGED <<points, cal_idx, cal_samples>>
           ELSE IF StopRule(Len(ss), e) THEN
               ThreadEndPoint(ss)
           ELSE
               /\ cal_samples' = ss
               /\ cal_elapsed' = e
               /\ UNCHANGED <<points, cal_idx>>
    /\ last_op' = IF ok THEN "collect" ELSE "no_read"
    /\ UNCHANGED <<dx_min, dx_max, dy_min, dy_max, cal_file, mapped>>

\* one of self.dx_min = min(xs), self.dx_max = max(xs), self.dy_min = min(ys),
\* self.dy_max = max(ys) (lines 140-143); the last is followed by save()
AssignExtent ==
    /\ cal_idx > NumPoints
    /\ LET k == cal_idx - NumPoints
           e == Extent(points)
       IN  /\ dx_min' = IF k = 1 THEN e[1] ELSE dx_min
           /\ dx_max' = IF k = 2 THEN e[2] ELSE dx_max
           /\ dy_min' = IF k = 3 THEN e[3] ELSE dy_min
           /\ dy_max' = IF k = 4 THEN e[4] ELSE dy_max
           /\ cal_idx' = IF k = 4 THEN 0 ELSE cal_idx + 1
           /\ cal_file' = IF k = 4 THEN Encode(points, e) ELSE cal_file
    /\ last_op' = "extent"
    /\ UNCHANGED <<points, cal_samples, cal_elapsed, mapped>>

\* the engine thread maps a gaze sample (main.py line 799) whatever the
\* calibration thread is doing; its loop runs once the profile of the start
\* of the process is there
ThreadMap(in) ==
    /\ cal_file.exists
    /\ mapped' = MapNormToScreen(in, <<dx_min, dx_max, dy_min, dy_max>>)
    /\ last_op' = "map"
    /\ UNCHANGED <<points, dx_min, dx_max, dy_min, dy_max, cal_file, cal_idx,
                   cal_samples, cal_elapsed>>

----------------------------------------------------------------------------
(* smoothing.py: SmoothFilter *)
(* Averages and smoothed values are fractions <<numerator, denominator>>.  *)

\* self.prev = None
NoPrev == <<>>

\* screen coordinates handed to update(): results of map_norm_to_screen
SmoothXs == {Margin, Margin + 1, Margin + 4, Margin + 9}
SmoothYs == {Margin, Margin + 2, Margin + 5}

\* SmoothFilter(ma_window, exp_alpha)
NewSmoother == [buffer_x |-> <<>>, buffer_y |-> <<>>, prev |-> NoPrev]

SmoothInit ==
    /\ smoother = NewSmoother
    /\ smoothed = <<<<Margin, 1>>, <<Margin, 1>>>>

\* deque(maxlen=ma_window).append(v)
BufferAppend(buf, v) ==
    IF Len(buf) >= MaWindow THEN Append(Tail(buf), v) ELSE Append(buf, v)

RECURSIVE Sum(_)
Sum(xs) == IF Len(xs) = 0 THEN 0 ELSE Head(xs) + Sum(Tail(xs))

\* sum(buffer) / len(buffer)
Avg(buf) == <<Sum(buf), Len(buf)>>

\* exp_alpha * avg + (1 - exp_alpha) * p
Blend(avg, p) ==
    <<AlphaNum * avg[1] * p[2] + (AlphaDen - AlphaNum) * p[1] * avg[2],
      AlphaDen * avg[2] * p[2]>>

\* int(v), for the non-negative values screen coordinates are
Trunc(v) == <<v[1] \div v[2], 1>>

\* update(x, y) on the filter sm (lines 15-30): the filter it leaves
UpdateResult(sm, x, y) ==
    LET bx == BufferAppend(sm.buffer_x, x)
        by == BufferAppend(sm.buffer_y, y)
        out == IF sm.prev = NoPrev
               THEN <<Avg(bx), Avg(by)>>
               ELSE <<Trunc(Blend(Avg(bx), sm.prev[1])),
                      Trunc(Blend(Avg(by), sm.prev[2]))>>
    IN  [buffer_x |-> bx, buffer_y |-> by, prev |-> out]

\* SmoothFilter.update(x, y) (lines 15-30); the value returned is the new prev
SmoothUpdate(x, y) ==
    /\ smoother' = UpdateResult(smoother, x, y)
    /\ smoothed' = smoother'.prev
    /\ last_op' = "smooth"

\* the settings reload of main.py (lines 722-725) replaces the smoother by a
\* new one
RecreateSmoother ==
    /\ smoother' = NewSmoother
    /\ last_op' = "reload"
    /\ UNCHANGED smoothed

\* "smoothing_window" in ui_s, for the settings read from the file (main.py
\* line 722; hasattr(smoother, "__init__") holds of every object)
ReloadsSmoother(s) == s.exists /\ "smoothing_window" \in DOMAIN s

\* the smoother over one face frame of the main loop at time t with mapped
\* point (x, y): the settings reload (lines 711-725), then smoother.update
\* (line 804), whose result goes to push_gaze
GazeFrame(t, x, y) ==
    LET sm == IF ReadsSettings(t) /\ ReloadsSmoother(ui_settings)
              THEN NewSmoother ELSE smoother
    IN  /\ now' = t
        /\ smoother' = UpdateResult(sm, x, y)
        /\ smoothed' = smoother'.prev
        /\ last_op' = "gaze"

----------------------------------------------------------------------------
(* main.py: the cursor update of a face frame (lines 806-839), utils.py:   *)
(* clamp_step                                                              *)
(* Arithmetic on binary floating-point numbers is modelled by its exact    *)
(* value, except where the exact value is a whole number: the computed     *)
(* value may then fall just below it, and int() gives one less             *)
(* (int(7 * 0.82 + 7 * 0.18) is 6).                                        *)

\* weights of the previous position and of the destination, in hundredths,
\* for the states locked, candidate and free
LockedBlend == <<82, 18>>
CandidateBlend == <<75, 25>>
FreeBlend == <<70, 30>>

\* curr_cursor = (screen_w // 2, screen_h // 2)
CursorInit == curr_cursor = <<ScreenW \div 2, ScreenH \div 2>>

\* int(p * w1 + d * w2) for coordinates p, d >= 0: the values it may take
TruncBlend(p, d, w) ==
    LET s == w[1] * p + w[2] * d
        q == s \div 100
    IN  IF s % 100 = 0 /\ q > 0 THEN {q, q - 1} ELSE {q}

\* int(p + dx * (M / d)) of clamp_step, where d * d = D2 > M * M: the values
\* it may take
AxisStep(p, dx, D2, M) ==
    IF dx = 0 THEN {p}
    ELSE IF dx > 0 THEN
        LET j == CHOOSE j \in 0..M : /\ j * j * D2 <= dx * dx * M * M
                                     /\ (j + 1) * (j + 1) * D2 > dx * dx * M * M
        IN  IF j * j * D2 = dx * dx * M * M THEN {p + j, p + j - 1} ELSE {p + j}
    ELSE
        LET m == CHOOSE m \in 0..M : /\ m * m * D2 >= dx * dx * M * M
                                     /\ (m = 0 \/ (m - 1) * (m - 1) * D2 < dx * dx * M * M)
        IN  IF m * m * D2 = dx * dx * M * M THEN {p - m, Max2(p - m - 1, 0)} ELSE {p - m}

\* clamp_step(prev_x, prev_y, target_x, target_y, max_step) (utils.py lines
\* 33-43)
ClampStep(prev, target, M) ==
    LET dx == target[1] - prev[1]
        dy == target[2] - prev[2]
        D2 == dx * dx + dy * dy
    IN  IF D2 <= M * M THEN {target}
        ELSE {<<x, y>> : x \in AxisStep(prev[1], dx, D2, M),
                         y \in AxisStep(prev[2], dy, D2, M)}

\* next_pos = (int(prev[0] * w1 + dest[0] * w2), int(prev[1] * w1 + dest[1] * w2));
\* clamp_step(prev[0], prev[1], next_pos[0], next_pos[1], M)
MoveToward(prev, dest, w, M) ==
    UNION {ClampStep(prev, <<nx, ny>>, M) :
              nx \in TruncBlend(prev[1], dest[1], w),
              ny \in TruncBlend(prev[2], dest[2], w)}

\* the three branches on state["state"] (lines 813-839); in the free state
\* the destination is the smoothed gaze, which is the result's cursor_pos
MoveCursor(prev, r) ==
    IF r.state = "locked" THEN MoveToward(prev, r.cursor_pos, LockedBlend, LockedMaxStep)
    ELSE IF r.state = "candidate"
         THEN MoveToward(prev, r.cursor_pos, CandidateBlend, CandidateMaxStep)
    ELSE MoveToward(prev, r.cursor_pos, FreeBlend, FreeMaxStep)

\* results of push_gaze handed to the cursor update
CursorTargets == {[id |-> "a", center |-> <<ScreenW \div 2 + 4, ScreenH \div 2 - 4>>],
                  [id |-> "b", center |-> <<2, ScreenH - 3>>]}
CursorGazes == {<<0, 0>>, <<ScreenW, 0>>, <<ScreenW, ScreenH>>, <<5, ScreenH \div 2>>}
CursorResults ==
    {[state |-> "locked", target |-> tg, cursor_pos |-> tg.center,
      action |-> "none", time_left |-> NoTime] : tg \in CursorTargets}
    \cup {[state |-> "candidate", target |-> tg, cursor_pos |-> tg.center,
           action |-> "dwell", time_left |-> 1] : tg \in CursorTargets}
    \cup {[state |-> "free", target |-> Nil, cursor_pos |-> g,
           action |-> "none", time_left |-> NoTime] : g \in CursorGazes}

\* the end of a face frame at time t: push_gaze returned r, and the cursor
\* moves (lines 806-839)
CursorFrame(t, r) ==
    /\ now' = t
    /\ lres' = r
    /\ locked_target' = IF r.state = "locked" THEN r.target ELSE Nil
    /\ candidate' = IF r.state = "candidate" THEN r.target ELSE Nil
    /\ curr_cursor' \in MoveCursor(curr_cursor, r)
    /\ last_op' = "cursor"
    /\ UNCHANGED <<targets, candidate_start, away_since, gaze_history, targets_cache>>

----------------------------------------------------------------------------
(* Specifications *)

Init ==
    /\ now = 0
    /\ last_op = "init"
    /\ BlinkInit
    /\ LockInit
    /\ MainInit
    /\ CalInit
    /\ SmoothInit
    /\ SettingsInit
    /\ CursorInit

\* the eyelid classifier alone, fed one frame after another
BlinkFrame ==
    /\ \E dt \in 1..MaxDt, rl \in Ratios, rr \in Ratios : BlinkUpdate(dt, rl, rr)
    /\ UNCHANGED <<lockVars, mainVars, calVars, smoothVars, settingsVars, cursorVars>>

SpecBlink == Init /\ [][BlinkFrame]_vars

\* the lock manager with the code of main.py that reads or writes it
LockTick ==
    /\ \E dt \in 0..MaxDt, g \in GazePoints : PushGaze(dt, g)
    /\ UNCHANGED <<blinkVars, mainVars, calVars, smoothVars, settingsVars, cursorVars>>
LockScan ==
    /\ \E snap \in Snapshots : ScanTargets(snap)
    /\ UNCHANGED <<blinkVars, mainVars, calVars, smoothVars, settingsVars, cursorVars>>
LockScanFailed == ScanFailed /\ UNCHANGED <<blinkVars, mainVars, calVars, smoothVars, settingsVars, cursorVars>>
LockVoiceLock == VoiceLock /\ UNCHANGED <<blinkVars, mainVars, calVars, smoothVars, settingsVars, cursorVars>>
LockVoiceUnlock == VoiceUnlock /\ UNCHANGED <<blinkVars, mainVars, calVars, smoothVars, settingsVars, cursorVars>>

LockInitAll == Init /\ min_closed_ms = 3

LockNext ==
    \/ LockTick
    \/ LockScan
    \/ LockScanFailed
    \/ LockVoiceLock
    \/ LockVoiceUnlock

SpecLock == LockInitAll /\ [][LockNext]_vars

\* the loop of main(): frames with and without a face, recalibration and the
\* voice commands that press or release the button.  The lock manager, which
\* reads and writes none of the loop's drag, click and scroll state, stays as
\* constructed.
MainFace ==
    /\ running
    /\ \E dt \in 1..MaxDt, rl \in MainRatios, rr \in MainRatios, head \in HeadMoves :
          FaceFrame(dt, rl, rr, head)
    /\ UNCHANGED <<lockVars, calVars, smoothVars, ui_settings, running, cursorVars>>
MainNoFace ==
    running /\ (\E dt \in 1..MaxDt : NoFaceFrame(dt)) /\ UNCHANGED <<lockVars, calVars, smoothVars, settingsVars, running, cursorVars>>
MainNoFrame ==
    running /\ (\E dt \in 1..MaxDt : NoFrame(dt)) /\ UNCHANGED <<lockVars, calVars, smoothVars, settingsVars, running, cursorVars>>
MainRecalibrate ==
    running /\ (\E dt \in 1..MaxDt : Recalibrate(dt)) /\ UNCHANGED <<lockVars, calVars, smoothVars, settingsVars, running, cursorVars>>
MainVoiceStartDrag == running /\ VoiceStartDrag /\ UNCHANGED <<lockVars, calVars, smoothVars, settingsVars, running, cursorVars>>
MainVoiceStopDrag == running /\ VoiceStopDrag /\ UNCHANGED <<lockVars, calVars, smoothVars, settingsVars, running, cursorVars>>
MainQuit == running /\ Quit /\ UNCHANGED <<lockVars, calVars, smoothVars, settingsVars, cursorVars>>
MainUiStop == running /\ UiStop /\ UNCHANGED <<lockVars, calVars, smoothVars, settingsVars, cursorVars>>

MainInitAll == Init /\ min_closed_ms = 3

MainNext ==
    \/ MainFace
    \/ MainNoFace
    \/ MainNoFrame
    \/ MainRecalibrate
    \/ MainVoiceStartDrag
    \/ MainVoiceStopDrag
    \/ MainQuit
    \/ MainUiStop

SpecMain == MainInitAll /\ [][MainNext]_vars

\* the engine under the UI: frames with and without a face, with the
\* settings file rewritten or removed between iterations of the loop
WriteSettings(s) ==
    /\ ui_settings' = s
    /\ s # ui_settings
    /\ last_op' = "settings"
    /\ UNCHANGED <<now, blinkVars, lockVars, mainVars, calVars, smoothVars,
                   blink_eye_close_thr, cursorVars>>
ReloadWrite == running /\ \E s \in SettingsChoices : WriteSettings(s)

ReloadNext ==
    \/ MainFace
    \/ MainNoFace
    \/ ReloadWrite

SpecReload == MainInitAll /\ [][ReloadNext]_vars

\* the calibrator: record_all with its collection loop, the mapping the loop
\* asks of it, and restarts of the process
CalRest == <<now, blinkVars, lockVars, mainVars, smoothVars, settingsVars, cursorVars>>
CalStartRecordAll == StartRecordAll /\ UNCHANGED CalRest
CalCollect ==
    /\ \E ok \in BOOLEAN, v \in SampleValues \cup {None}, dt \in 1..MaxDt :
          CollectFrame(ok, v, dt)
    /\ UNCHANGED CalRest
CalStartup == Startup /\ UNCHANGED CalRest
CalMap == (\E in \in NormInputs : MapNorm(in)) /\ UNCHANGED CalRest

CalInitAll == Init /\ min_closed_ms = 3

CalNext ==
    \/ CalStartRecordAll
    \/ CalCollect
    \/ CalStartup
    \/ CalMap

SpecCalib == CalInitAll /\ [][CalNext]_vars

\* recalibration from the UI: record_all in the calibration thread, its
\* steps interleaved with the engine thread's mapping
RecalStart == StartRecordAll /\ UNCHANGED CalRest
RecalCollect ==
    /\ \E ok \in BOOLEAN, v \in SampleValues \cup {None}, dt \in 1..MaxDt :
          ThreadCollect(ok, v, dt)
    /\ UNCHANGED CalRest
RecalAssign == AssignExtent /\ UNCHANGED CalRest
RecalMap == (\E in \in NormInputs : ThreadMap(in)) /\ UNCHANGED CalRest

RecalNext ==
    \/ RecalStart
    \/ RecalCollect
    \/ RecalAssign
    \/ RecalMap

SpecRecal == CalInitAll /\ [][RecalNext]_vars

\* the cursor, moved once per face frame
CursorTick ==
    /\ \E r \in CursorResults :
          /\ now + 1 <= MaxCursorTime
          /\ CursorFrame(now + 1, r)
    /\ UNCHANGED <<blinkVars, mainVars, calVars, smoothVars, settingsVars>>

CursorNext == CursorTick

SpecCursor == CalInitAll /\ [][CursorNext]_vars

\* the smoother, fed one mapped gaze point per frame
SmoothRest == <<now, blinkVars, lockVars, mainVars, calVars, settingsVars, cursorVars>>
SmoothFrame ==
    /\ \E x \in SmoothXs, y \in SmoothYs : SmoothUpdate(x, y)
    /\ UNCHANGED SmoothRest
SmoothReload == RecreateSmoother /\ UNCHANGED SmoothRest

SmoothInitAll == Init /\ min_closed_ms = 3

SmoothGazeFrame ==
    /\ \E dt \in 1..MaxDt, x \in SmoothXs, y \in SmoothYs :
          /\ now + dt <= MaxMainTime
          /\ GazeFrame(now + dt, x, y)
    /\ UNCHANGED <<blinkVars, lockVars, mainVars, calVars, settingsVars, cursorVars>>

SmoothNext ==
    \/ SmoothFrame
    \/ SmoothReload
    \/ SmoothGazeFrame
    \/ ReloadWrite

SpecSmooth == SmoothInitAll /\ [][SmoothNext]_vars

----------------------------------------------------------------------------
(* Claims about BlinkDetector, checked under SpecBlink *)

\* an update step: the frame just processed by BlinkDetector.update
BlinkStep == last_op' = "blink_update"

\* C1: a both-eyes closure that starts at t0 (both_closed false -> true) and
\* ends at t1 (both_closed true -> false) reports both_blink on the frame at
\* t1 exactly when blink_min <= t1 - t0 <= blink_max, bounds inclusive.  tB is
\* t0: it is stamped on the closing frame and kept while both stay closed.
C1_BlinkWindowBounds ==
    [][BlinkStep =>
         /\ (~bstate.both_closed /\ bstate'.both_closed => tB' = now')
         /\ (bstate.both_closed /\ bstate'.both_closed => tB' = tB)
         /\ (bstate.both_closed /\ ~bstate'.both_closed =>
               (bstate'.both_blink <=>
                   /\ 4 * min_closed_ms <= 10 * (now' - tB)
                   /\ now' - tB <= 3 * min_closed_ms))]_vars

\* C1 witness: a closure of exactly blink_min (2 ms at base 5) was just
\* reported as a blink.
C1_Witness ==
    /\ bstate.both_blink
    /\ 10 * (now - tB) = 4 * min_closed_ms

\* C2: an eye whose closure overlapped a both-eyes closure (it has been closed
\* since tL resp. tR and both eyes closed at tB >= that time) never produces
\* its wink event when it reopens.
C2_NoWinkAfterBothClosure ==
    [][BlinkStep =>
         /\ (prev_L /\ tB >= tL => ~bstate'.left_blink)
         /\ (prev_R /\ tB >= tR => ~bstate'.right_blink)]_vars

\* C3: no frame reports left_blink and right_blink together.
C3_NeverTwoWinks == ~(bstate.left_blink /\ bstate.right_blink)

\* C4: both_blink on a frame implies neither wink event on that frame.
C4_BothBlinkExcludesWinks ==
    bstate.both_blink => (~bstate.left_blink /\ ~bstate.right_blink)

\* C4 witness: a both-eyes blink fired on a frame on which the left eye's own
\* closure (since tL) also passed the wink window, so a wink was computed and
\* discarded.
C4_Witness ==
    /\ bstate.both_blink
    /\ ~bstate.left_closed
    /\ 5 * min_closed_ms <= 10 * (now - tL)
    /\ 10 * (now - tL) <= 35 * min_closed_ms

\* C5: per-channel hysteresis.  An open channel closes on a ratio below
\* close_thr; a closed channel stays closed on every ratio below open_thr and
\* reopens on a ratio above open_thr.
C5_Hysteresis ==
    [][BlinkStep =>
         /\ (~l_closed_raw /\ rawL' < close_thr => l_closed_raw')
         /\ (l_closed_raw /\ rawL' < open_thr => l_closed_raw')
         /\ (l_closed_raw /\ rawL' > open_thr => ~l_closed_raw')
         /\ (~r_closed_raw /\ rawR' < close_thr => r_closed_raw')
         /\ (r_closed_raw /\ rawR' < open_thr => r_closed_raw')
         /\ (r_closed_raw /\ rawR' > open_thr => ~r_closed_raw')]_vars

\* C5 witness: a channel is held closed by a ratio inside the hysteresis band
\* (at open_thr - eps, not below close_thr).
C5_Witness ==
    /\ l_closed_raw
    /\ rawL = open_thr - 1
    /\ rawL >= close_thr

\* C6: both_blink is emitted only on a frame on which both eyes are open.
C6_BlinkOnlyWhenBothOpen ==
    bstate.both_blink => (~bstate.left_closed /\ ~bstate.right_closed)

\* C7: events are one-frame pulses.  both_blink needs the both-closed -> not
\* both-closed transition on that frame, left_blink / right_blink need that
\* eye's closed -> open transition on that frame, and a both-eyes closure that
\* ends inside the blink window yields both_blink and no wink event.  With
\* base 220 ms the window is [88, 660] ms, so 300 ms is inside it.
C7_OneFramePulses ==
    [][BlinkStep =>
         /\ (bstate'.both_blink => bstate.both_closed /\ ~bstate'.both_closed)
         /\ (bstate'.left_blink => bstate.left_closed /\ ~bstate'.left_closed)
         /\ (bstate'.right_blink => bstate.right_closed /\ ~bstate'.right_closed)
         /\ (/\ bstate.both_closed /\ ~bstate'.both_closed
             /\ 4 * min_closed_ms <= 10 * (now' - tB)
             /\ now' - tB <= 3 * min_closed_ms
             => bstate'.both_blink /\ ~bstate'.left_blink /\ ~bstate'.right_blink)
         /\ InBlinkWindow(220, 300)
         /\ InBlinkWindow(220, 88) /\ ~InBlinkWindow(220, 87)
         /\ InBlinkWindow(220, 660) /\ ~InBlinkWindow(220, 661)]_vars

\* C7 witness: both eyes closed on the same frame, opened together on the
\* same frame, and the opening frame carries the single both_blink.
C7_Witness ==
    /\ bstate.both_blink /\ ~bstate.left_blink /\ ~bstate.right_blink
    /\ ~bstate.left_closed /\ ~bstate.right_closed
    /\ tL = tB /\ tR = tB /\ tB > 0

\* C8: fixed mirrored swap.  left_closed is the hysteresis state of the
\* image-right channel, right_closed that of the image-left channel, and
\* both_closed is their conjunction, for every constructor argument.
C8_MirroredSwap ==
    /\ bstate.left_closed = r_closed_raw
    /\ bstate.right_closed = l_closed_raw
    /\ bstate.both_closed = (bstate.left_closed /\ bstate.right_closed)

\* C8 witness: only the image-right channel is closed (its ratio is below
\* close_thr, the image-left ratio is above open_thr) and the user's left eye
\* alone is reported closed.
C8_Witness ==
    /\ rawR < close_thr /\ rawL > open_thr
    /\ bstate.left_closed /\ ~bstate.right_closed

----------------------------------------------------------------------------
(* Claims about GazeLockManager, checked under SpecLock *)

\* a push_gaze tick; its gaze point is the newest entry of the history
LockStep == last_op' = "push_gaze"
GazeOf(h) == h[Len(h)].p

\* d > unlock_distance for gaze g against the target locked before the tick
FarFromLocked(g) ==
    Dist2(g, locked_target.center) > UnlockDistancePx * UnlockDistancePx

\* C9: lock escape.  A tick in state Locked whose gaze is farther than
\* unlock_distance from the target's centre and whose velocity is above
\* velocity_threshold returns state 'free', target None, cursor_pos = gaze,
\* action 'unlock' on that tick and leaves locked_target, candidate and
\* away_since cleared.
C9_LockEscape ==
    [][(LockStep /\ locked_target # Nil) =>
         LET h == gaze_history'
             g == GazeOf(h)
         IN  (/\ FarFromLocked(g)
              /\ Len(h) >= 2
              /\ Span(h) > 0
              /\ Disp2(h) > VelocityThreshold * VelocityThreshold * Span(h) * Span(h))
             =>
             /\ lres'.state = "free"
             /\ lres'.target = Nil
             /\ lres'.cursor_pos = g
             /\ lres'.action = "unlock"
             /\ locked_target' = Nil
             /\ candidate' = Nil
             /\ away_since' = NoTime]_vars

\* C9 witness: a tick just unlocked by the fast escape with the gaze exactly
\* unlock_distance + 1 px from the centre of the target it was locked on
\* (TargetA at x = 0).
C9_Witness ==
    /\ last_op = "push_gaze"
    /\ lres.action = "unlock"
    /\ lres.cursor_pos = <<UnlockDistancePx + 1, 0>>
    /\ locked_target = Nil

\* what the sustained look-away branch of push_gaze does, keyed on the timer
\* field: with no timer running the tick starts it, with a timer running the
\* tick unlocks exactly when now - away_since >= sustained_away_time, and a
\* tick within unlock_distance clears the timer.
AwayTimerBranches ==
    [][(LockStep /\ locked_target # Nil) =>
         LET h == gaze_history'
             g == GazeOf(h)
             slow == ~VelAbove(h)
         IN  /\ (FarFromLocked(g) /\ slow /\ away_since = NoTime =>
                   /\ away_since' = now'
                   /\ locked_target' = locked_target
                   /\ lres'.state = "locked" /\ lres'.action = "none")
             /\ (FarFromLocked(g) /\ slow /\ away_since # NoTime
                                  /\ now' - away_since >= SustainedAwayTime =>
                   /\ locked_target' = Nil
                   /\ away_since' = NoTime
                   /\ lres'.state = "free" /\ lres'.action = "unlock_sustained")
             /\ (FarFromLocked(g) /\ slow /\ away_since # NoTime
                                  /\ now' - away_since < SustainedAwayTime =>
                   /\ locked_target' = locked_target
                   /\ away_since' = away_since
                   /\ lres'.state = "locked" /\ lres'.action = "none")
             /\ (~FarFromLocked(g) =>
                   /\ away_since' = NoTime
                   /\ locked_target' = locked_target
                   /\ lres'.state = "locked")]_vars

\* the tick before this one acquired the lock, or was a locked tick within
\* unlock_distance of the target: a far, slow tick now is the first of its run
FirstAwayTick ==
    /\ last_op = "push_gaze"
    /\ lres.state = "locked"
    /\ lres.target = locked_target
    /\ \/ lres.action = "snap"
       \/ ~FarFromLocked(GazeOf(gaze_history))

\* C10: sustained look-away.  While Locked with distance > unlock_distance and
\* velocity <= velocity_threshold, the first such tick starts away_since (at
\* now) and stays locked; a later such tick unlocks with 'unlock_sustained'
\* exactly when now - away_since >= sustained_away_time and otherwise stays
\* locked with 'none'; a tick with distance <= unlock_distance clears
\* away_since.
C10_SustainedLookAway ==
    [][(LockStep /\ locked_target # Nil) =>
         LET h == gaze_history'
             g == GazeOf(h)
             slow == ~VelAbove(h)
         IN  /\ (FarFromLocked(g) /\ slow /\ FirstAwayTick =>
                   /\ away_since' = now'
                   /\ locked_target' = locked_target
                   /\ lres'.state = "locked" /\ lres'.action = "none")
             /\ (FarFromLocked(g) /\ slow /\ ~FirstAwayTick /\ away_since # NoTime =>
                   IF now' - away_since >= SustainedAwayTime
                   THEN /\ locked_target' = Nil
                        /\ lres'.state = "free" /\ lres'.action = "unlock_sustained"
                   ELSE /\ locked_target' = locked_target
                        /\ lres'.state = "locked" /\ lres'.action = "none")
             /\ (~FarFromLocked(g) => away_since' = NoTime)]_vars

\* C11: lock dead-zone.  A tick in state Locked whose gaze is within
\* dead_zone_px of the centre of the locked target stays locked on the same
\* target, returns that target's centre as cursor_pos whatever the gaze,
\* clears away_since and reports action 'none'.
C11_LockDeadZone ==
    [][(LockStep /\ locked_target # Nil
                 /\ Dist2(GazeOf(gaze_history'), locked_target.center)
                        <= DeadZonePx * DeadZonePx) =>
         /\ locked_target' = locked_target
         /\ lres'.state = "locked"
         /\ lres'.target = locked_target
         /\ lres'.cursor_pos = locked_target.center
         /\ lres'.action = "none"
         /\ away_since' = NoTime]_vars

\* C11 witness: a locked tick whose gaze is dead_zone_px off the centre of the
\* locked target, so the jitter is not zero, was answered with the centre.
C11_Witness ==
    /\ last_op = "push_gaze"
    /\ locked_target # Nil
    /\ lres.state = "locked" /\ lres.action = "none"
    /\ Dist2(GazeOf(gaze_history), locked_target.center) = DeadZonePx * DeadZonePx
    /\ lres.cursor_pos = locked_target.center
    /\ lres.cursor_pos # GazeOf(gaze_history)
    /\ away_since = NoTime

\* a tick taken while no target is locked, with the nearest target within
\* snap radius of the gaze
NearTick ==
    /\ LockStep
    /\ locked_target = Nil
    /\ Nearest(targets, GazeOf(gaze_history')) # Nil
    /\ Dist2(GazeOf(gaze_history'), Nearest(targets, GazeOf(gaze_history')).center)
          <= SnapRadiusPx * SnapRadiusPx

\* C12: dwell promotion.  While not locked, with the nearest target within
\* snap radius and the velocity not low: a tick whose nearest target has the
\* id of the current candidate locks on the candidate with action 'snap'
\* exactly when now - candidate_start >= dwell_time, and otherwise returns
\* 'candidate' / 'dwell' with time_left = dwell_time - elapsed and keeps the
\* candidate and its timer; a tick whose nearest target has another id, or
\* that finds no candidate, makes the nearest target the candidate, restarts
\* the timer at now and returns 'candidate_started'.
C12_DwellPromotion ==
    [][(NearTick /\ ~VelLow(gaze_history')) =>
         LET nearest == Nearest(targets, GazeOf(gaze_history'))
         IN  IF candidate # Nil /\ candidate.id = nearest.id
             THEN IF now' - candidate_start >= DwellTime
                  THEN /\ locked_target' = candidate
                       /\ lres'.state = "locked"
                       /\ lres'.target = candidate
                       /\ lres'.action = "snap"
                  ELSE /\ locked_target' = Nil
                       /\ lres'.state = "candidate"
                       /\ lres'.action = "dwell"
                       /\ lres'.time_left = DwellTime - (now' - candidate_start)
                       /\ candidate' = candidate
                       /\ candidate_start' = candidate_start
             ELSE /\ locked_target' = Nil
                  /\ candidate' = nearest
                  /\ candidate_start' = now'
                  /\ lres'.state = "candidate"
                  /\ lres'.action = "candidate_started"]_vars

\* C12 witness: a tick with velocity not low has just locked: that is the
\* promotion of a candidate, not the low-velocity snap.
C12_Witness ==
    /\ last_op = "push_gaze"
    /\ lres.state = "locked" /\ lres.action = "snap"
    /\ locked_target = lres.target
    /\ ~VelLow(gaze_history)

\* C13: snap-lock.  While not locked, with the nearest target within snap
\* radius and velocity < 0.35 * velocity_threshold, the tick locks on the
\* nearest target at once (state 'locked', action 'snap', candidate and its
\* timer cleared), whatever candidate was pending and however long it had
\* dwelt; the first gaze sample, whose velocity estimate is 0, is such a tick.
C13_SnapLock ==
    [][NearTick =>
         LET h == gaze_history'
             nearest == Nearest(targets, GazeOf(h))
         IN  /\ (Len(h) = 1 => VelLow(h))
             /\ (VelLow(h) =>
                   /\ locked_target' = nearest
                   /\ lres'.state = "locked"
                   /\ lres'.target = nearest
                   /\ lres'.action = "snap"
                   /\ candidate' = Nil
                   /\ candidate_start' = NoTime)]_vars

\* C13 witness: the very first gaze sample locked on the target next to it.
C13_Witness ==
    /\ last_op = "push_gaze"
    /\ Len(gaze_history) = 1
    /\ lres.state = "locked" /\ lres.action = "snap"
    /\ locked_target = TargetA
    /\ candidate = Nil

\* C14: while not locked, a tick that finds the snapshot empty or the nearest
\* target farther than snap radius from the gaze returns state 'free', no
\* target, cursor_pos = gaze and action 'none', and clears candidate and
\* candidate_start, whatever the velocity.
C14_FreeWhenOutOfSnap ==
    [][(LockStep /\ locked_target = Nil) =>
         LET g == GazeOf(gaze_history')
             nearest == Nearest(targets, g)
         IN  (\/ Len(targets) = 0
              \/ Dist2(g, nearest.center) > SnapRadiusPx * SnapRadiusPx) =>
                 /\ lres'.state = "free"
                 /\ lres'.target = Nil
                 /\ lres'.cursor_pos = g
                 /\ lres'.action = "none"
                 /\ candidate' = Nil
                 /\ candidate_start' = NoTime
                 /\ locked_target' = Nil]_vars

\* C14 witness: with targets present, a slow tick one pixel beyond snap
\* radius of the nearest target was answered 'free' at the gaze.
C14_Witness ==
    /\ last_op = "push_gaze"
    /\ targets = <<TargetA>>
    /\ GazeOf(gaze_history) = <<SnapRadiusPx + 1, 0>>
    /\ VelLow(gaze_history)
    /\ lres.state = "free" /\ lres.action = "none"
    /\ lres.cursor_pos = GazeOf(gaze_history)
    /\ candidate = Nil /\ candidate_start = NoTime

\* C15: output contract of push_gaze.  Every call returns state, target,
\* cursor_pos and action; the state is 'locked', 'candidate' or 'free';
\* cursor_pos is the centre of the returned target when the state is 'locked'
\* or 'candidate' and the gaze point passed in when it is 'free'; the target
\* is None exactly when the state is 'free'.
C15_OutputContract ==
    last_op = "push_gaze" =>
        /\ {"state", "target", "cursor_pos", "action"} \subseteq DOMAIN lres
        /\ lres.state \in {"locked", "candidate", "free"}
        /\ (lres.target = Nil <=> lres.state = "free")
        /\ (lres.state \in {"locked", "candidate"} =>
               lres.cursor_pos = lres.target.center)
        /\ (lres.state = "free" => lres.cursor_pos = GazeOf(gaze_history))

\* C15 witness: a 'candidate' answer whose cursor_pos is the centre of the
\* returned target and not the gaze point.
C15_Witness ==
    /\ last_op = "push_gaze"
    /\ lres.state = "candidate"
    /\ lres.target = TargetB
    /\ lres.cursor_pos = TargetB.center
    /\ lres.cursor_pos # GazeOf(gaze_history)

\* the snapshot held by the manager has no target with the id of the locked
\* target (an empty snapshot included)
LockedIdOmitted ==
    /\ locked_target # Nil
    /\ \A i \in 1..Len(targets) : targets[i].id # locked_target.id

\* C16: target-snapshot swap tolerance.  A tick taken while locked on a target
\* whose id the current snapshot omits either stays locked on that target and
\* returns its last known centre, or unlocks through the distance rules: with
\* 'unlock' when the gaze is beyond unlock_distance and the velocity above
\* the threshold, with 'unlock_sustained' when the gaze is beyond
\* unlock_distance and the away timer has run sustained_away_time.
C16_SnapshotSwapTolerance ==
    [][(LockStep /\ LockedIdOmitted) =>
         LET h == gaze_history'
             g == GazeOf(h)
         IN  \/ /\ locked_target' = locked_target
                /\ lres'.state = "locked"
                /\ lres'.target = locked_target
                /\ lres'.cursor_pos = locked_target.center
             \/ /\ locked_target' = Nil
                /\ lres'.action = "unlock"
                /\ FarFromLocked(g) /\ VelAbove(h)
             \/ /\ locked_target' = Nil
                /\ lres'.action = "unlock_sustained"
                /\ FarFromLocked(g)
                /\ away_since # NoTime
                /\ now' - away_since >= SustainedAwayTime]_vars

\* C16 witness: locked on TargetB, the snapshot was replaced by one that
\* holds only TargetA, and the next tick still answered with TargetB's centre.
C16_Witness ==
    /\ last_op = "push_gaze"
    /\ targets = <<TargetA>>
    /\ locked_target = TargetB
    /\ lres.state = "locked"
    /\ lres.target = TargetB
    /\ lres.cursor_pos = TargetB.center

\* C17: the away_since timer is valid only while Locked.  After any sequence
\* of push_gaze ticks, target refreshes and voice lock / unlock commands,
\* away_since is unset whenever no target is locked.
C17_AwayTimerOnlyWhileLocked == locked_target = Nil => away_since = NoTime

\* C18: the lock state (locked_target, candidate, candidate_start,
\* away_since) changes only in push_gaze steps: every other step of the
\* engine, voice-command handling and target scanning included, leaves these
\* fields as they were.
C18_LockStateOnlyInPushGaze ==
    [][~LockStep =>
         UNCHANGED <<locked_target, candidate, candidate_start, away_since>>]_vars

----------------------------------------------------------------------------
(* Claims about the main loop, checked under SpecMain *)

\* an iteration of the loop: a frame with a face, a frame without one, or a
\* failed read
LoopIteration == MainFace \/ MainNoFace \/ MainNoFrame

\* the step issued mouseUp
MouseUpIssued == \E i \in 1..Len(calls') : calls'[i] = "mouseUp"

\* a drag started by the left-wink gesture is held at the start of the step
\* and is older than MAX_DRAG_DURATION at the time of the step
GestureDragOverdue ==
    /\ drag_active
    /\ drag_source = "gesture"
    /\ now' - drag_start_time > MaxDragDuration

\* what the code does provide: an iteration whose frame shows a face releases
\* an overdue drag (lines 760-774)
DragTimeoutOnFaceFrames ==
    [][(MainFace /\ GestureDragOverdue) => (MouseUpIssued /\ ~drag_active')]_vars

\* C19: drag-safety timeout.  In every run of the loop, frames without a
\* face, recalibration and voice drags included, an iteration that finds a
\* gesture-started drag older than MAX_DRAG_DURATION issues mouseUp and
\* clears drag_active.
C19_DragSafetyTimeout ==
    [][(LoopIteration /\ GestureDragOverdue) => (MouseUpIssued /\ ~drag_active')]_vars

\* C20: blink releases drag.  An iteration whose frame fires both_blink while
\* drag_active is true issues mouseUp(left) first and the click or
\* double-click of the blink second; drag_active is true afterwards only if
\* the same iteration pressed the button again after the click.
C20_BlinkReleasesDrag ==
    [][(MainFace /\ drag_active /\ bstate'.both_blink) =>
         /\ Len(calls') >= 2
         /\ calls'[1] = "mouseUp"
         /\ calls'[2] \in {"click", "doubleClick"}
         /\ (drag_active' <=> \E i \in 3..Len(calls') : calls'[i] = "mouseDown")]_vars

\* C20 witness: a frame with a both-eyes blink found a drag held, released it
\* and then clicked.
C20_Witness ==
    /\ last_op = "blink_update"
    /\ bstate.both_blink
    /\ Len(calls) >= 2
    /\ calls[1] = "mouseUp"
    /\ calls[2] = "click"
    /\ ~drag_active

\* C21: clean stop.  Once the engine is stopped (quit key, or the UI's stop)
\* no actuation state is left asserted: a drag that was active at the stop has
\* been released, so a stopped engine never holds the left button down.
C21_CleanStop == ~running => ~drag_active

\* C22: landmark absence.  An iteration whose frame shows no face issues no
\* action and leaves the detector's state and timers, the lock state with its
\* timers and history, and the drag, click and scroll state as they were; a
\* both-eyes closure that ends on a later frame is judged against the time it
\* started, whatever dropouts fell in between.
C22_LandmarkAbsence ==
    [][/\ MainNoFace =>
            /\ calls' = <<>>
            /\ UNCHANGED <<blinkVars, locked_target, candidate, candidate_start,
                           away_since, gaze_history, drag_active, drag_start_time,
                           scroll_mode, both_closed_start, last_left_click_time,
                           last_scroll_time>>
       /\ (MainFace /\ bstate.both_closed /\ ~bstate'.both_closed) =>
            (bstate'.both_blink <=> InBlinkWindow(min_closed_ms, now' - tB))]_vars

\* C22 witness: a frame without a face fell into a both-eyes closure that had
\* already run for a while; the closure and its start time are still there.
C22_Witness ==
    /\ last_op = "no_face"
    /\ bstate.both_closed /\ prev_B
    /\ both_closed_start = tB
    /\ now - tB >= 2
    /\ calls = <<>>

----------------------------------------------------------------------------
(* Claims about Calibration, checked under SpecCalib *)

\* a frame was just delivered to a collection that is still running
StillCollecting == last_op = "collect" /\ cal_idx > 0

\* the names of the anchors of ps, in the order they were stored, are taken
\* from PointsDef in its order
InPointsOrder(ps) ==
    \E pos \in [1..Len(ps) -> 1..NumPoints] :
        /\ \A i \in 1..Len(ps) : ps[i].name = PointsDef[pos[i]]
        /\ \A i, j \in 1..Len(ps) : i < j => pos[i] < pos[j]

\* what the code does provide: anchors are stored in the order of the point
\* list, and a finished record_all leaves the extent that is the min / max
\* over its anchors, which is also what it saves
ProfileWellFormed ==
    /\ InPointsOrder(points)
    /\ (last_op = "collect" /\ cal_idx = 0 /\ Len(points) > 0) =>
          /\ <<dx_min, dx_max, dy_min, dy_max>> = Extent(points)
          /\ cal_file = Encode(points, Extent(points))

\* C23: freeze-proof calibration.  _collect returns once max_samples samples
\* are gathered or max_time has elapsed, whatever norm_func returns: after a
\* delivered frame a collection that is still running has fewer than
\* max_samples samples and has run for less than max_time.
C23_CollectReturns ==
    StillCollecting =>
        /\ Len(cal_samples) < MaxSamples
        /\ cal_elapsed < MaxCollectTime

\* C24: calibration point skipping.  A point whose collection has run to
\* max_time with fewer than the 4 samples record_all asks for is dropped and
\* record_all goes on with the next point: no collection is still running
\* past max_time with fewer samples than that; the anchors of the profile
\* follow the fixed order of the point list, and a finished record_all leaves
\* the extent that is the min / max over the collected anchors.
C24_PointSkipping ==
    /\ (StillCollecting /\ cal_elapsed >= MaxCollectTime) =>
          Len(cal_samples) >= KeepSamples
    /\ ProfileWellFormed

\* the extent held by the Calibration object, and the one in its file
ExtentNow == <<dx_min, dx_max, dy_min, dy_max>>
ExtentOnFile == <<cal_file.dx_min, cal_file.dx_max, cal_file.dy_min, cal_file.dy_max>>
OnScreen(p) ==
    /\ Margin <= p[1] /\ p[1] <= ScreenW - Margin
    /\ Margin <= p[2] /\ p[2] <= ScreenH - Margin

\* C25: mapping clamp.  For every input, inside or outside the calibrated
\* extent, and every stored extent, a degenerate one included,
\* map_norm_to_screen divides by a positive denominator and returns a point
\* with sx in [m, sw - m] and sy in [m, sh - m].
C25_MappingClamp ==
    /\ last_op = "map" => OnScreen(mapped)
    /\ cal_idx = 0 =>
          \A in \in NormInputs :
              /\ Ratio(2 * in[1], dx_min, dx_max)[2] >= 1
              /\ Ratio(2 * in[2], dy_min, dy_max)[2] >= 1
              /\ OnScreen(MapNormToScreen(in, ExtentNow))

\* an input right of a degenerate extent was mapped, to the right margin
C25_Witness ==
    /\ last_op = "map"
    /\ Len(points) > 0
    /\ dx_min = dx_max
    /\ mapped[1] = ScreenW - Margin

----------------------------------------------------------------------------
(* Claims about SmoothFilter, checked under SpecSmooth *)

\* equality of two fractions
SameValue(a, b) == a[1] * b[2] = b[1] * a[2]

\* buf2 is buf after one more input: the at most ma_window most recent
MostRecent(buf, buf2) ==
    /\ Len(buf2) <= MaWindow
    /\ Len(buf2) = IF Len(buf) >= MaWindow THEN MaWindow ELSE Len(buf) + 1
    /\ \A i \in 1..(Len(buf2) - 1) : buf2[i] = buf[Len(buf) - (Len(buf2) - 1) + i]

\* the window and the first call of update() are as the claim says, and
\* every later call returns the smoothed value cut down to a whole number
SmoothTruncates ==
    [][last_op' = "smooth" =>
         /\ MostRecent(smoother.buffer_x, smoother'.buffer_x)
         /\ MostRecent(smoother.buffer_y, smoother'.buffer_y)
         /\ smoother'.prev = smoothed'
         /\ smoother.prev = NoPrev =>
               smoothed' = <<Avg(smoother'.buffer_x), Avg(smoother'.buffer_y)>>
         /\ smoother.prev # NoPrev =>
               /\ smoothed'[1] = Trunc(Blend(Avg(smoother'.buffer_x), smoother.prev[1]))
               /\ smoothed'[2] = Trunc(Blend(Avg(smoother'.buffer_y), smoother.prev[2]))
    ]_vars

\* C27: SmoothFilter.update keeps the at most ma_window most recent inputs
\* per axis; the first call returns their mean and seeds previous; every
\* later call returns exactly alpha * movingAvg + (1 - alpha) * previous per
\* axis and stores that value as the new previous.
C27_SmoothUpdate ==
    [][last_op' = "smooth" =>
         /\ MostRecent(smoother.buffer_x, smoother'.buffer_x)
         /\ MostRecent(smoother.buffer_y, smoother'.buffer_y)
         /\ smoother'.prev = smoothed'
         /\ smoother.prev = NoPrev =>
               smoothed' = <<Avg(smoother'.buffer_x), Avg(smoother'.buffer_y)>>
         /\ smoother.prev # NoPrev =>
               /\ SameValue(smoothed'[1], Blend(Avg(smoother'.buffer_x), smoother.prev[1]))
               /\ SameValue(smoothed'[2], Blend(Avg(smoother'.buffer_y), smoother.prev[2]))
    ]_vars

----------------------------------------------------------------------------
(* Claims about the order of a tick, checked under SpecMain *)

\* the commands a gesture dispatches
GestureCalls == {"click", "doubleClick", "rightClick", "mouseDown", "mouseUp", "scroll"}

\* position of the first call named c among the calls of the latest step
IndexOf(c) == CHOOSE i \in 1..Len(calls) : calls[i] = c /\ \A j \in 1..(i - 1) : calls[j] # c

\* a face frame has just been processed
FaceTick == last_op = "blink_update"

\* what the code does: on a face frame the gaze is mapped, smoothed, pushed
\* to the lock manager and the cursor moved, in this order, after every
\* gesture command of the frame
GesturesBeforeGaze ==
    FaceTick =>
        /\ IndexOf("map_norm_to_screen") < IndexOf("smoother.update")
        /\ IndexOf("smoother.update") < IndexOf("push_gaze")
        /\ IndexOf("push_gaze") < IndexOf("moveTo")
        /\ \A i \in 1..Len(calls) :
              calls[i] \in GestureCalls => i < IndexOf("map_norm_to_screen")

\* C28: tick ordering.  On a face frame the gaze is mapped, then smoothed,
\* then pushed to the lock manager and the cursor moved, and every click,
\* drag press / release and scroll of the frame is dispatched after that lock
\* update and cursor move.
C28_TickOrdering ==
    FaceTick =>
        /\ IndexOf("map_norm_to_screen") < IndexOf("smoother.update")
        /\ IndexOf("smoother.update") < IndexOf("push_gaze")
        /\ IndexOf("push_gaze") < IndexOf("moveTo")
        /\ \A i \in 1..Len(calls) :
              calls[i] \in GestureCalls => IndexOf("moveTo") < i

----------------------------------------------------------------------------
(* Claims about the UI settings, checked under SpecReload *)

\* the value the settings file gives for key k, d when the file or the key
\* is missing
Setting(k, d) ==
    IF ui_settings.exists /\ k \in DOMAIN ui_settings THEN ui_settings[k] ELSE d

\* what the reload does with the threshold: after a face frame read a
\* settings file, the detector carries an attribute eye_close_thr that is
\* None or the value of the file, next to the threshold it classifies with
ReloadSetsUnreadAttribute ==
    (FaceTick /\ ui_settings.exists) =>
        /\ blink_eye_close_thr \in {AttrNone, ui_settings.eye_close_thr}
        /\ close_thr = EyeCloseThr

\* C29: hot reload.  A face frame that follows a face frame which has read
\* the settings file classifies with the eye-close threshold and the
\* minimum closed duration of the file, and the lock manager works with its
\* snap radius and dwell time; a missing file or key leaves the default in
\* force.
C29_HotReload ==
    [][(FaceTick /\ last_op' = "blink_update") =>
         /\ close_thr = Setting("eye_close_thr", EyeCloseThr)
         /\ min_closed_ms' = Setting("min_closed_ms", 3)
         /\ SnapRadiusPx = Setting("snap_radius", SnapRadiusPx)
         /\ DwellTime = Setting("dwell_time", DwellTime)
    ]_vars

\* the commands enable_actions is to gate
ActionCalls == {"click", "doubleClick", "rightClick", "mouseDown", "scroll"}

\* C30: while enable_actions is false in the UI settings (its default, also
\* when there is no file) a face frame dispatches no click, double click,
\* right click, mouseDown or scroll.
C30_ActionsGated ==
    (FaceTick /\ ~Setting("enable_actions", FALSE)) =>
        \A i \in 1..Len(calls) : calls[i] \notin ActionCalls

----------------------------------------------------------------------------
(* Further claims about GazeLockManager, checked under SpecLock *)

\* C31: velocity estimate used for lock gating.  After a push the history
\* holds the at most vel_window most recent samples, the current one last.
\* The velocity is the distance between the oldest and the newest of them
\* over the time between them, and 0 with fewer than 2 samples or no time
\* between them.  That value decides the fast escape of a gaze far from the
\* locked target; a snap without a candidate happens only below 0.35 times
\* the threshold and a candidate is started only at or above it.
C31_VelocityEstimate ==
    [][LockStep =>
         LET old  == gaze_history
             h    == gaze_history'
             n    == Len(h)
             el   == h[n].t - h[1].t
             d2   == Dist2(h[n].p, h[1].p)
             zero == n < 2 \/ el <= 0
             thr2 == VelocityThreshold * VelocityThreshold
             fast == (~zero) /\ d2 > thr2 * el * el
             slow == IF zero THEN VelocityThreshold > 0
                     ELSE 400 * d2 < 49 * thr2 * el * el
         IN  /\ n = (IF Len(old) < VelWindow THEN Len(old) + 1 ELSE VelWindow)
             /\ h[n].t = now'
             /\ \A i \in 1..(n - 1) : h[i] = old[Len(old) - (n - 1) + i]
             /\ (locked_target # Nil /\ FarFromLocked(h[n].p)) =>
                   (lres'.action = "unlock" <=> fast)
             /\ (locked_target = Nil /\ candidate = Nil /\ lres'.action = "snap") => slow
             /\ lres'.action = "candidate_started" => ~slow]_vars

\* a fast escape decided on a full window of samples
C31_Witness ==
    /\ last_op = "push_gaze"
    /\ Len(gaze_history) = VelWindow
    /\ gaze_history[Len(gaze_history)].t > gaze_history[1].t
    /\ lres.action = "unlock"

\* what holds with the voice commands in the run: after a push the tag is
\* 'locked' exactly when a target is locked, and 'free' only when neither a
\* locked target nor a candidate is held
TagMatchesLockedTarget ==
    last_op = "push_gaze" =>
        /\ (lres.state = "locked" <=> locked_target # Nil)
        /\ (lres.state = "free" => (locked_target = Nil /\ candidate = Nil))
        /\ (lres.state = "candidate" => (candidate # Nil /\ candidate_start # NoTime))

\* C36: single source of truth for the lock state.  After every push_gaze
\* the returned tag matches the fields: 'locked' iff locked_target is set,
\* 'candidate' iff candidate and candidate_start are set and locked_target
\* is not, 'free' iff neither is set; locked_target and candidate are never
\* both set.
C36_SingleSourceOfTruth ==
    last_op = "push_gaze" =>
        /\ (lres.state = "locked" <=> locked_target # Nil)
        /\ (lres.state = "candidate" <=>
              (candidate # Nil /\ candidate_start # NoTime /\ locked_target = Nil))
        /\ (lres.state = "free" <=> (locked_target = Nil /\ candidate = Nil))
        /\ ~(locked_target # Nil /\ candidate # Nil)

----------------------------------------------------------------------------
(* Further claims about the main loop, checked under SpecMain *)

\* how many of the calls of the latest step are named in cs
CountCalls(q, cs) == Cardinality({i \in 1..Len(q) : q[i] \in cs})

\* C32: click / double-click sequencing.  A face frame on which both_blink
\* is reported outside scroll mode issues exactly one of click and
\* doubleClick; it is the doubleClick exactly when the frame is within
\* DOUBLE_CLICK_WINDOW of the last single click, and then the reference time
\* is reset to 0.0, from which every blink is a single click; a single click
\* makes its own time the reference.  Other frames issue neither and keep
\* the reference time.
C32_ClickSequencing ==
    [][MainFace =>
         IF bstate'.both_blink /\ ~scroll_mode'
         THEN /\ CountCalls(calls', {"click", "doubleClick"}) = 1
              /\ IF now' - last_left_click_time <= DoubleClickWindow
                 THEN /\ CountCalls(calls', {"doubleClick"}) = 1
                      /\ last_left_click_time # Epoch
                      /\ last_left_click_time' = Epoch
                 ELSE /\ CountCalls(calls', {"click"}) = 1
                      /\ last_left_click_time' = now'
         ELSE /\ CountCalls(calls', {"click", "doubleClick"}) = 0
              /\ last_left_click_time' = last_left_click_time]_vars

\* a second blink within the window of a single click: a double click
C32_Witness ==
    /\ last_op = "blink_update"
    /\ bstate.both_blink
    /\ CountCalls(calls, {"doubleClick"}) = 1
    /\ last_left_click_time = Epoch

\* C33: settings-reload throttle.  Two face frames in a row that both read
\* the settings file are more than the reload interval (0.22 s) apart.
C33_ReloadThrottle ==
    [][(FaceTick /\ MainFace /\ ReadsSettings(now) /\ ReadsSettings(now')) =>
         now' - now > UiReloadInterval]_vars

\* the face frame just processed found the drag gesture (left eye closed,
\* right eye open) and left the button released: the branch of the gesture
\* that presses was not taken, so the safety timeout has released the button
TimeoutReleased ==
    /\ FaceTick
    /\ bstate.left_closed /\ ~bstate.right_closed
    /\ ~drag_active

\* C34: no re-press after the safety release.  On the face frame after the
\* timeout released the button, with the left eye still closed, no
\* mouseDown is issued and the button stays released.
C34_NoRepress ==
    [][(TimeoutReleased /\ MainFace /\ bstate'.left_closed) =>
         /\ CountCalls(calls', {"mouseDown"}) = 0
         /\ ~drag_active']_vars

\* the mouseDown / mouseUp commands among the calls q, in order
IsButtonCall(c) == c \in {"mouseDown", "mouseUp"}
ButtonCalls(q) == SelectSeq(q, IsButtonCall)

\* the commands of q alternate, starting with a press when the button is
\* not held and with a release when it is
RECURSIVE Alternates(_, _)
Alternates(q, held) ==
    IF Len(q) = 0 THEN TRUE
    ELSE /\ Head(q) = (IF held THEN "mouseUp" ELSE "mouseDown")
         /\ Alternates(Tail(q), ~held)

\* C35: button-state consistency.  The run starts with the button not held
\* and drag_active false; the mouseDown and mouseUp commands of every step,
\* from gestures and from the voice commands, continue the alternation (a
\* press only when drag_active is false, a release only when it is true),
\* and after the step drag_active is true exactly when the last command so
\* far was mouseDown.
C35_ButtonAlternation ==
    /\ ~drag_active
    /\ [][LET b == ButtonCalls(calls')
          IN  /\ Alternates(b, drag_active)
              /\ drag_active' = (IF Len(b) = 0 THEN drag_active
                                 ELSE b[Len(b)] = "mouseDown")]_vars

\* a frame that released a held button and pressed it again
C35_Witness ==
    /\ last_op = "blink_update"
    /\ Len(ButtonCalls(calls)) = 2
    /\ drag_active

\* C37: scroll and click are exclusive outcomes of one both-eyes closure.
\* The face frame on which the eyes reopen after a closure that entered
\* scroll mode issues neither click nor doubleClick.
C37_ScrollExcludesClick ==
    [][(FaceTick /\ scroll_mode /\ bstate.both_closed /\ MainFace
          /\ ~bstate'.both_closed)
         => CountCalls(calls', {"click", "doubleClick"}) = 0]_vars

\* C38: the main loop's smoother is stateful across frames.  On a face frame
\* that follows a face frame, with the settings file untouched in between,
\* the point handed to the lock manager is the filter's update of the window
\* and previous value the frame before left, and the window and previous
\* value the frame leaves are those of that update.
C38_SmootherSurvives ==
    [][(last_op = "gaze" /\ last_op' = "gaze" /\ now' # now)
         => LET n == Len(smoother'.buffer_x)
                u == UpdateResult(smoother, smoother'.buffer_x[n],
                                  smoother'.buffer_y[n])
            IN  smoother' = u /\ smoothed' = u.prev]_vars

----------------------------------------------------------------------------
(* Claims about recalibration from the UI, checked under SpecRecal *)

\* C39: recalibration replaces the profile wholesale.  The extent used by a
\* map_norm_to_screen call of the engine thread while the calibration thread
\* runs record_all is the old profile's, which is the saved one, or the one
\* of the anchors just recorded, never a mix of the two.
C39_WholesaleReplacement ==
    (last_op = "map" /\ cal_idx > 0)
        => \/ ExtentNow = ExtentOnFile
           \/ (cal_idx > NumPoints /\ ExtentNow = Extent(points))

----------------------------------------------------------------------------
(* Claims about the cursor update, checked under SpecCursor *)

\* the lock stays on one target over the step
StaysLocked ==
    /\ lres.state = "locked" /\ lres'.state = "locked"
    /\ lres'.target = lres.target
    /\ last_op = "cursor" /\ last_op' = "cursor"

\* C40: the cursor reaches the lock target.  While the lock stays on one
\* target, a tick that leaves the cursor where it was finds it on the
\* target's centre, so that the cursor cannot come to rest anywhere else;
\* and a cursor on the centre stays on it.
C40_CursorReachesTarget ==
    [][StaysLocked =>
         /\ curr_cursor' = curr_cursor => curr_cursor = lres.cursor_pos
         /\ curr_cursor = lres.cursor_pos => curr_cursor' = curr_cursor]_vars

====
